---- MODULE Spec2Model ----
(***************************************************************************)
(* A model of campaign_dashboard.py, a Streamlit script.  Every user       *)
(* interaction re-runs the script from the top against the session state;  *)
(* one action of the model is one such run (with the st.rerun() it ends    *)
(* in, where the code has one).                                            *)
(*                                                                         *)
(* Numbers.  The script computes in IEEE doubles.  The model computes in   *)
(* exact rationals extended with the values +inf and NaN that the script   *)
(* uses as sentinels, and with a value for a raised ZeroDivisionError.     *)
(* Rounding error of the doubles is not modelled.                          *)
(*                                                                         *)
(* Data.  A row of the uploaded sheet is modelled by the four columns the  *)
(* aggregates read: "Campaign number", ruserid, purcheas_ind, revenue.     *)
(* The campaign name is taken to be in one-to-one correspondence with the  *)
(* campaign number, so a group of groupby(['campaign','Campaign number'])  *)
(* is a campaign number.  Row order does not influence any aggregate, so   *)
(* sheets are enumerated up to row order.  A sheet also carries the set of *)
(* the required columns it lacks, which decides how the Data Preparation   *)
(* block ends.                                                             *)
(***************************************************************************)
EXTENDS Integers, Sequences, FiniteSets, TLC

VARIABLES
    authenticated,        \* st.session_state.authenticated
    username,             \* st.session_state.username
    uploaded_file,        \* st.session_state.uploaded_file (NoFile, or the rows of the sheet)
    login_attempt_failed, \* st.session_state.login_attempt_failed
    page,                 \* st.session_state.page
    pba_budget_data,      \* st.session_state.pba_budget_data (campaign number -> budget)
    screen,               \* what the last run of the script ended on
    view,                 \* what the last run computed on the home/compare/single page
    dataframe,            \* the dataframe df as the last run left it
    campaign_summary,     \* campaign_insights page: the aggregate table of the last run
    econ                  \* campaign_insights page: the economics section of the last run

vars == <<authenticated, username, uploaded_file, login_attempt_failed, page,
          pba_budget_data, screen, view, dataframe, campaign_summary, econ>>

----------------------------------------------------------------------------
(* Bounds of the model *)

MaxRows == 2
MaxUser == 1
MaxPayers == 10
MaxRevenueUnits == 4
MaxBudgetUnits == 10
NSamples == 2
MaxCompareUsers == 2
MaxRecords == 32
MaxMissing == 2

\* Input domains
CampaignNumbers == {1, 2}
Revenues == {0, 2}
BudgetChoices == {0, 2, 3}
NoUser == 0
UserIds == 1..MaxUser
LoginNames == {"resonlabs", "guest"}
LoginPasswords == {"1234", "0000"}
Pages == {"home", "compare_campaigns", "single_campaign", "campaign_insights"}

----------------------------------------------------------------------------
(* Extended rational numbers *)

Abs(i) == IF i < 0 THEN -i ELSE i

RECURSIVE GCD(_, _)
GCD(a, b) == IF b = 0 THEN a ELSE GCD(b, a % b)

\* n/d with d # 0, in lowest terms with a positive denominator
Fin(n, d) ==
    LET s == IF d < 0 THEN -1 ELSE 1
        g == GCD(Abs(n), Abs(d))
    IN  [k |-> "fin", n |-> (s * n) \div g, d |-> (s * d) \div g]

Num(i) == [k |-> "fin", n |-> i, d |-> 1]
Inf == [k |-> "inf", n |-> 1, d |-> 0]
NaN == [k |-> "nan", n |-> 0, d |-> 0]
DivError == [k |-> "ZeroDivisionError", n |-> 0, d |-> 0]

IsFin(x) == x.k = "fin"
IsNaN(x) == x.k = "nan"
IsZero(x) == x.k = "fin" /\ x.n = 0

\* comparisons of doubles: every comparison with NaN is false
Le(a, b) ==
    CASE a.k = "fin" /\ b.k = "fin" -> a.n * b.d <= b.n * a.d
      [] a.k = "fin" /\ b.k = "inf" -> TRUE
      [] a.k = "inf" /\ b.k = "inf" -> TRUE
      [] OTHER -> FALSE

Lt(a, b) ==
    CASE a.k = "fin" /\ b.k = "fin" -> a.n * b.d < b.n * a.d
      [] a.k = "fin" /\ b.k = "inf" -> TRUE
      [] OTHER -> FALSE

Ge(a, b) == Le(b, a)
Gt(a, b) == Lt(b, a)

Sub(a, b) ==
    CASE a.k = "fin" /\ b.k = "fin" -> Fin(a.n * b.d - b.n * a.d, a.d * b.d)
      [] a.k = "inf" /\ b.k = "fin" -> Inf
      [] OTHER -> NaN

Mul(a, b) ==
    CASE a.k = "fin" /\ b.k = "fin" -> Fin(a.n * b.n, a.d * b.d)
      [] a.k = "ZeroDivisionError" \/ b.k = "ZeroDivisionError" -> DivError
      [] a.k = "nan" \/ b.k = "nan" -> NaN
      [] IsZero(a) \/ IsZero(b) -> NaN
      [] OTHER -> Inf

\* a / b of two Python floats: a zero divisor raises
PyDiv(a, b) ==
    CASE IsZero(b) -> DivError
      [] a.k = "fin" /\ b.k = "fin" -> Fin(a.n * b.d, a.d * b.n)
      [] a.k = "nan" \/ b.k = "nan" -> NaN
      [] a.k = "fin" /\ b.k = "inf" -> Num(0)
      [] a.k = "inf" /\ b.k = "fin" -> Inf
      [] OTHER -> NaN

\* a / b of two pandas/numpy values: a zero divisor gives inf or NaN
NpDiv(a, b) ==
    CASE IsZero(b) /\ a.k = "fin" /\ a.n > 0 -> Inf
      [] IsZero(b) /\ a.k = "fin" /\ a.n = 0 -> NaN
      [] IsZero(b) -> NaN
      [] OTHER -> PyDiv(a, b)

\* x rounded to a multiple of 1/unit, ties to even (round(2): unit = 100)
RoundTo(x, unit) ==
    IF x.k # "fin" THEN x
    ELSE LET num == x.n * unit
             q == num \div x.d
             r2 == 2 * (num - q * x.d)
             up == r2 > x.d \/ (r2 = x.d /\ q % 2 = 1)
         IN  Fin(IF up THEN q + 1 ELSE q, unit)

----------------------------------------------------------------------------
(* The uploaded sheet and the prepared dataframe df *)

\* A sheet is its data rows and the set of the required columns it lacks.
NoFile == [present |-> FALSE, rows |-> <<>>, missing |-> {}]

RawRows == [camp : CampaignNumbers, user : {NoUser} \cup UserIds,
            purch : {0, 1}, rev : Revenues]

RowKey(r) == ((r.camp * (MaxUser + 1) + r.user) * 2 + r.purch) * 4 + r.rev

\* the sheets of up to MaxRows rows, one per multiset of rows
Files ==
    { [present |-> TRUE, rows |-> s, missing |-> {}] : s \in
        { t \in UNION { [1..n -> RawRows] : n \in 0..MaxRows } :
            \A i \in 1..(Len(t) - 1) : RowKey(t[i]) <= RowKey(t[i + 1]) } }

columns_to_fill ==
    {"use_the_internet_for", "do_on_social_media", "enter_personal_details_online",
     "keep_your_passwords", "victim_of_online_scam", "nline_accounts_hacked",
     "safety_level_quiz_score", "breach_found", "transaction_start",
     "trial_ind", "purcheas_ind", "revenue", "plan"}

\* the columns the Data Preparation block looks up in the sheet
RequiredColumns == columns_to_fill \cup {"Campaign number"}

\* the sheets that lack one required column, without a data row or with
\* one; no run reads a cell of the row (see DataPreparation)
MissingFiles ==
    { [present |-> TRUE, rows |-> s, missing |-> {c}] :
        s \in {<<>>, <<[camp |-> 1, user |-> 1, purch |-> 1, rev |-> 2]>>},
        c \in RequiredColumns }

\* How the Data Preparation block ends.  df[name] and df[list of names]
\* raise KeyError when a name is not a column of the sheet; the test of
\* 'safety_level_quiz_score' in df.columns comes after these lookups.
DataPreparation(file) ==
    IF "purcheas_ind" \in file.missing THEN "KeyError"
    ELSE IF "breach_found" \in file.missing THEN "KeyError"
    ELSE IF columns_to_fill \cap file.missing # {} THEN "KeyError"
    ELSE IF "Campaign number" \in file.missing THEN "KeyError"
    ELSE IF "safety_level_quiz_score" \in file.missing THEN "missing_column"
    ELSE "prepared"

\* load_data and the Data Preparation block.  On the modelled columns the
\* block fills missing purcheas_ind/revenue with 0 and drops rows without a
\* campaign number; the sheets of the model have no such cells, so the rows
\* pass unchanged.  ruserid is not among the filled columns: a missing user
\* id stays missing (NoUser).
LoadData(file) == file.rows

RECURSIVE SumSeq(_)
SumSeq(s) ==
    IF Len(s) = 0 THEN 0
    ELSE IF Len(s) = 1 THEN s[1]
    ELSE LET h == Len(s) \div 2
         IN  SumSeq(SubSeq(s, 1, h)) + SumSeq(SubSeq(s, h + 1, Len(s)))

RECURSIVE SortedSeq(_)
SortedSeq(S) ==
    IF S = {} THEN <<>>
    ELSE LET m == CHOOSE x \in S : \A y \in S : x <= y
         IN  <<m>> \o SortedSeq(S \ {m})

\* df[df[camp] == c]
RowsOf(df, c) == SelectSeq(df, LAMBDA r : r.camp = c)

Column(rows, col) == [i \in 1..Len(rows) |-> rows[i][col]]

\* Series.nunique(): the distinct non-missing values
NUnique(rows) == Cardinality({rows[i].user : i \in 1..Len(rows)} \ {NoUser})

\* Series.count(): the non-missing values
Count(rows) == Cardinality({i \in 1..Len(rows) : rows[i].user # NoUser})

\* the campaign numbers that have a group
CampaignsOf(df) == {df[i].camp : i \in 1..Len(df)}

----------------------------------------------------------------------------
(* campaign_insights page: the aggregate table *)

\* df['_rev_num'] = pd.to_numeric(df.get('revenue', 0), errors='coerce').fillna(0):
\* the column _rev_num is added to df, or overwritten where df has it.  The
\* revenue cells of the model are numbers, which to_numeric returns as they are.
RevNum(df) ==
    [i \in 1..Len(df) |->
        [f \in (DOMAIN df[i]) \cup {"rev_num"} |->
            IF f = "rev_num" THEN df[i].rev ELSE df[i][f]]]

\* variant: the payers are taken by the purchase flag
PayersByPurchaseFlag(rows) == NUnique(SelectSeq(rows, LAMBDA r : r.purch > 0))

\* payers: distinct users of the rows with revenue > 0, 0 where no such row
PayersOf(rows) == NUnique(SelectSeq(rows, LAMBDA r : r.rev_num > 0))

\* Revenue: the sum of the revenue cells that are > 0
RevenueOf(rows) == SumSeq(Column(SelectSeq(rows, LAMBDA r : r.rev_num > 0), "rev_num"))

LTVOf(revenue, payers) ==
    IF payers > 0 THEN PyDiv(Num(revenue), Num(payers)) ELSE NaN

SummaryRow(df, c) ==
    LET rows == RowsOf(df, c)
        rev == RevenueOf(rows)
        pay == PayersOf(rows)
    IN  [cnum |-> c,
         Users |-> NUnique(rows),
         Purchases |-> SumSeq(Column(rows, "purch")),
         Revenue |-> rev,
         Payers |-> pay,
         LTV |-> LTVOf(rev, pay)]

\* one row per campaign group, sorted by campaign number
CampaignSummary(df) ==
    LET order == SortedSeq(CampaignsOf(df))
        with_rev_num == RevNum(df)
    IN  [i \in 1..Len(order) |-> SummaryRow(with_rev_num, order[i])]

\* the aggregation of the campaign_insights page: the table it computes and
\* df as it leaves it
Aggregator(df) ==
    [df |-> RevNum(df), campaign_summary |-> CampaignSummary(df)]

----------------------------------------------------------------------------
(* campaign_insights page: the economics of one row *)

\* pba_budget_data.get(cnum, 0.0)
BudgetGet(budgets, cnum) == IF cnum \in DOMAIN budgets THEN budgets[cnum] ELSE 0

LtvUsed(ltv) == IF ~IsNaN(ltv) THEN ltv ELSE Num(0)

\* variant: the division without the payers guard
CacUnguarded(budget, payers_cnt) == PyDiv(Num(budget), Num(payers_cnt))

Cac(budget, payers_cnt) ==
    IF payers_cnt > 0 THEN PyDiv(Num(budget), Num(payers_cnt)) ELSE Inf

\* variant: revenue over budget, the budget not subtracted
RoiGross(revenue, budget) ==
    IF budget > 0 THEN Mul(PyDiv(Num(revenue), Num(budget)), Num(100)) ELSE Num(0)

Roi(revenue, budget) ==
    IF budget > 0
    THEN Mul(PyDiv(Sub(Num(revenue), Num(budget)), Num(budget)), Num(100))
    ELSE Num(0)

\* variant: only a zero cac is excluded
RatioGuardZeroOnly(ltv_used, cac) == cac # Num(0)

\* the guard of the ratio: cac not in (0.0, inf) and ltv_used > 0
RatioGuard(ltv_used, cac) == cac \notin {Num(0), Inf} /\ Gt(ltv_used, Num(0))

\* variant: the ratio is taken the other way round
LtvCacInverted(ltv_used, cac) ==
    IF RatioGuard(ltv_used, cac) THEN PyDiv(cac, ltv_used) ELSE Num(0)

LtvCac(ltv_used, cac) ==
    IF RatioGuard(ltv_used, cac) THEN PyDiv(ltv_used, cac) ELSE Num(0)

\* variant: the break-even threshold is exclusive
StatusStrictBreakEven(payers_cnt, ltv_used, cac, ltv_cac) ==
    IF payers_cnt = 0 THEN "No Payers"
    ELSE IF Le(ltv_used, Num(0)) \/ cac \in {Num(0), Inf} \/ Le(ltv_cac, Num(0))
         THEN "LTV unavailable"
    ELSE IF Ge(ltv_cac, Fin(3, 1)) THEN "Excellent"
    ELSE IF Ge(ltv_cac, Fin(3, 2)) THEN "Good"
    ELSE IF Gt(ltv_cac, Fin(1, 1)) THEN "Break-even"
    ELSE "Losing Money"

Status(payers_cnt, ltv_used, cac, ltv_cac) ==
    IF payers_cnt = 0 THEN "No Payers"
    ELSE IF Le(ltv_used, Num(0)) \/ cac \in {Num(0), Inf} \/ Le(ltv_cac, Num(0))
         THEN "LTV unavailable"
    ELSE IF Ge(ltv_cac, Fin(3, 1)) THEN "Excellent"
    ELSE IF Ge(ltv_cac, Fin(3, 2)) THEN "Good"
    ELSE IF Ge(ltv_cac, Fin(1, 1)) THEN "Break-even"
    ELSE "Losing Money"

\* variant: a zero roi is taken for a negative one
RecommendationRoiNonPositive(payers_cnt, roi, ltv_cac) ==
    IF payers_cnt = 0 THEN "No paying users - review targeting."
    ELSE IF Le(roi, Num(0)) THEN "Consider reducing budget or changing strategy."
    ELSE IF Ge(ltv_cac, Fin(3, 1))
         THEN "Excellent efficiency - consider scaling this campaign."
    ELSE IF Ge(ltv_cac, Fin(3, 2))
         THEN "Good profitability - consider increasing budget."
    ELSE IF Ge(ltv_cac, Fin(1, 1)) THEN "At break-even - optimize for better ROI."
    ELSE "Monitor performance closely and adjust strategy."

Recommendation(payers_cnt, roi, ltv_cac) ==
    IF payers_cnt = 0 THEN "No paying users - review targeting."
    ELSE IF Lt(roi, Num(0)) THEN "Consider reducing budget or changing strategy."
    ELSE IF Ge(ltv_cac, Fin(3, 1))
         THEN "Excellent efficiency - consider scaling this campaign."
    ELSE IF Ge(ltv_cac, Fin(3, 2))
         THEN "Good profitability - consider increasing budget."
    ELSE IF Ge(ltv_cac, Fin(1, 1)) THEN "At break-even - optimize for better ROI."
    ELSE "Monitor performance closely and adjust strategy."

NotAvailable == [k |-> "N/A", n |-> 0, d |-> 0]

\* "LTV/CAC": "N/A" if ltv_cac <= 0 else f"{ltv_cac:.1f}"
ShowRatio(ltv_cac) == IF Le(ltv_cac, Num(0)) THEN NotAvailable ELSE RoundTo(ltv_cac, 10)

\* "CAC": "N/A" if cac == inf else f"${cac:.0f}"
ShowCac(cac) == IF cac = Inf THEN NotAvailable ELSE RoundTo(cac, 1)

\* "LTV": "N/A" if ltv_used <= 0 else f"${ltv_used:,.0f}"
ShowLtv(ltv_used) == IF Le(ltv_used, Num(0)) THEN NotAvailable ELSE RoundTo(ltv_used, 1)

\* the divisors of the divisions the row's computation evaluates
RowDivisors(budget, payers_cnt, ltv_used, cac) ==
    (IF payers_cnt > 0 THEN {Num(payers_cnt)} ELSE {})
    \cup (IF budget > 0 THEN {Num(budget)} ELSE {})
    \cup (IF RatioGuard(ltv_used, cac) THEN {cac} ELSE {})

\* the body of the row loop for a summary row r whose budget is > 0
EconomicsRow(r, budget) ==
    LET payers_cnt == r.Payers
        ltv_used == LtvUsed(r.LTV)
        cac == Cac(budget, payers_cnt)
        roi == Roi(r.Revenue, budget)
        ltv_cac == LtvCac(ltv_used, cac)
    IN  [cnum |-> r.cnum,
         budget |-> budget,
         users |-> r.Users,
         payers |-> payers_cnt,
         revenue |-> r.Revenue,
         ltv |-> ltv_used,
         cac |-> cac,
         roi |-> roi,
         ltv_cac |-> ltv_cac,
         status |-> Status(payers_cnt, ltv_used, cac, ltv_cac),
         recommendation |-> Recommendation(payers_cnt, roi, ltv_cac),
         show_ltv |-> ShowLtv(ltv_used),
         show_cac |-> ShowCac(cac),
         show_ratio |-> ShowRatio(ltv_cac),
         divisors |-> RowDivisors(budget, payers_cnt, ltv_used, cac)]

----------------------------------------------------------------------------
(* campaign_insights page: the row loop and the portfolio roll-up *)

\* variant: only a negative budget is skipped
IncludedNonNegative(summary, budgets) ==
    SelectSeq(summary, LAMBDA r : BudgetGet(budgets, r.cnum) >= 0)

\* the summary rows the loop does not skip (it skips budget <= 0)
Included(summary, budgets) ==
    SelectSeq(summary, LAMBDA r : BudgetGet(budgets, r.cnum) > 0)

EconomicsRows(summary, budgets) ==
    LET inc == Included(summary, budgets)
    IN  [i \in 1..Len(inc) |-> EconomicsRow(inc[i], BudgetGet(budgets, inc[i].cnum))]

\* variant: the division without the payers guard
BlendedCacUnguarded(total_budget, total_payers) ==
    PyDiv(Num(total_budget), Num(total_payers))

BlendedCac(total_budget, total_payers) ==
    IF total_payers > 0 THEN PyDiv(Num(total_budget), Num(total_payers)) ELSE Inf

BlendedLtv(total_revenue, total_payers) ==
    IF total_payers > 0 THEN PyDiv(Num(total_revenue), Num(total_payers)) ELSE NaN

BlendedRatio(blended_ltv, blended_cac) ==
    IF blended_cac \notin {Num(0), Inf} /\ ~IsNaN(blended_ltv)
    THEN PyDiv(blended_ltv, blended_cac)
    ELSE NaN

PortfolioRoi(total_revenue, total_budget) ==
    IF total_budget > 0
    THEN Mul(PyDiv(Sub(Num(total_revenue), Num(total_budget)), Num(total_budget)),
             Num(100))
    ELSE Num(0)

\* variant: a row whose cac equals its ltv is not counted
ProfitableCntStrict(rows) ==
    Cardinality({i \in 1..Len(rows) :
        rows[i].payers > 0 /\ Gt(rows[i].ltv, Num(0)) /\ Lt(rows[i].cac, rows[i].ltv)})

ProfitableCnt(rows) ==
    Cardinality({i \in 1..Len(rows) :
        rows[i].payers > 0 /\ Gt(rows[i].ltv, Num(0)) /\ Le(rows[i].cac, rows[i].ltv)})

\* variant: the map is only tested for having an entry
HasBudgetEntry(budgets) == DOMAIN budgets # {}

\* the condition under which the section is computed at all
HasBudget(budgets) == \E c \in DOMAIN budgets : budgets[c] > 0

NoEcon == [computed |-> FALSE]

Economics(summary, budgets) ==
    IF ~HasBudget(budgets) THEN NoEcon
    ELSE LET rows == EconomicsRows(summary, budgets)
             total_budget == SumSeq(Column(rows, "budget"))
             total_revenue == SumSeq(Column(rows, "revenue"))
             total_payers == SumSeq(Column(rows, "payers"))
             blended_cac == BlendedCac(total_budget, total_payers)
             blended_ltv == BlendedLtv(total_revenue, total_payers)
         IN  [computed |-> TRUE,
              rows |-> rows,
              total_budget |-> total_budget,
              total_revenue |-> total_revenue,
              total_payers |-> total_payers,
              blended_cac |-> blended_cac,
              blended_ltv |-> blended_ltv,
              blended_ratio |-> BlendedRatio(blended_ltv, blended_cac),
              portfolio_roi |-> PortfolioRoi(total_revenue, total_budget),
              profitable_cnt |-> ProfitableCnt(rows)]

----------------------------------------------------------------------------
(* Conversion rates *)

\* (purchases / users) * 100 if users > 0 else 0
ConversionRate(purchases, users) ==
    IF users > 0 THEN Mul(PyDiv(Num(purchases), Num(users)), Num(100)) ELSE Num(0)

\* (column / column) * 100 of a dataframe: no guard, pandas division
ConversionColumn(purchases, users) ==
    Mul(NpDiv(Num(purchases), Num(users)), Num(100))

----------------------------------------------------------------------------
(* home page *)

HomeRow(df, c) ==
    LET rows == RowsOf(df, c)
        users == NUnique(rows)
        purchases == SumSeq(Column(rows, "purch"))
    IN  [cnum |-> c, Users |-> users, Purchases |-> purchases,
         conversion_rate |-> RoundTo(ConversionColumn(purchases, users), 100)]

HomeView(df) ==
    IF df = <<>> THEN [kind |-> "home", shown |-> FALSE, error |-> "none"]
    ELSE LET order == SortedSeq(CampaignsOf(df))
         IN  [kind |-> "home", shown |-> TRUE, error |-> "none",
              conversion_rate |->
                  ConversionRate(SumSeq(Column(df, "purch")), NUnique(df)),
              table |-> [i \in 1..Len(order) |-> HomeRow(df, order[i])]]

----------------------------------------------------------------------------
(* compare_campaigns page *)

\* np.random.beta(a, b, 5000) raises ValueError unless a > 0 and b > 0
BetaRaises(a, b) == a <= 0 \/ b <= 0

PosteriorAlpha(purchases) == purchases + 1
\* variant: the prior's 1 is not added to the failures
PosteriorBetaNoPrior(purchases, users) == users - purchases

PosteriorBeta(purchases, users) == users - purchases + 1

\* the selectboxes: A among the campaigns, B among the others
CompareChoices(df) ==
    {<<a, b>> \in CampaignsOf(df) \X CampaignsOf(df) : a # b}

CompareDefault(df) ==
    LET order == SortedSeq(CampaignsOf(df))
    IN  IF Len(order) >= 2 THEN <<order[1], order[2]>> ELSE <<0, 0>>

\* The draws of one run.  np.random.beta is called on the global generator,
\* which the script never seeds: what a run draws is not determined by the
\* session.  A Beta(a, b) with a, b > 0 has the whole of (0, 1) as support,
\* so every vector over SampleValues is a possible draw whatever a and b are;
\* the samples are doubles, so two of them can be equal.
\* The script draws 5000 values per campaign; the model draws NSamples.
SampleValues == {Fin(1, 4), Fin(3, 4)}

SampleKey(x) == IF x = Fin(1, 4) THEN 0 ELSE 1

\* the pairs (samples_A[i], samples_B[i]); np.mean does not depend on their
\* order, so the draws are enumerated up to the order of the pairs
Draws ==
    { [A |-> [i \in 1..NSamples |-> t[i][1]], B |-> [i \in 1..NSamples |-> t[i][2]]] :
        t \in { u \in [1..NSamples -> SampleValues \X SampleValues] :
                  \A i \in 1..(NSamples - 1) :
                      2 * SampleKey(u[i][1]) + SampleKey(u[i][2])
                          <= 2 * SampleKey(u[i + 1][1]) + SampleKey(u[i + 1][2]) } }

\* a run that does not reach the two np.random.beta calls
NoDraw == [A |-> <<>>, B |-> <<>>]

\* what a run that renders page pg can get from the libraries, when the
\* draws of the comparison page are taken from D.compare and the outcomes of
\* the fits of the single-campaign page from D.single
DrawsOn(pg, D) ==
    CASE pg = "compare_campaigns" -> D.compare
      [] pg = "single_campaign" -> D.single
      [] OTHER -> {NoDraw}

\* np.mean(samples_B > samples_A) * 100
ProbBBetter(samples_A, samples_B) ==
    LET wins == {i \in 1..Len(samples_A) : Gt(samples_B[i], samples_A[i])}
    IN  Mul(Fin(Cardinality(wins), Len(samples_A)), Num(100))

\* variant: the difference taken the other way round
UpliftReversed(conversion_A, conversion_B) == Sub(conversion_A, conversion_B)

\* uplift = conversion_B - conversion_A, computed before the samples are drawn
Uplift(conversion_A, conversion_B) == Sub(conversion_B, conversion_A)

\* variant: B wins from 50 on
WinnerFromFifty(a, b, prob_B_better) ==
    IF Ge(prob_B_better, Num(50)) THEN b ELSE a

\* winner = B if prob_B_better > 50 else A
Winner(a, b, prob_B_better) ==
    IF Gt(prob_B_better, Num(50)) THEN b ELSE a

\* certainty = max(prob_B_better, 100 - prob_B_better)
Certainty(prob_B_better) ==
    LET other == Sub(Num(100), prob_B_better)
    IN  IF Gt(other, prob_B_better) THEN other ELSE prob_B_better

CompareView(df, a, b, rnd) ==
    IF df = <<>> THEN [kind |-> "compare_campaigns", shown |-> FALSE, error |-> "none"]
    ELSE IF <<a, b>> \notin CompareChoices(df)
         \* no second campaign: camp_B_number is None and .values[0] raises
         THEN [kind |-> "compare_campaigns", shown |-> FALSE, error |-> "IndexError"]
    ELSE LET users_A == NUnique(RowsOf(df, a))
             purchases_A == SumSeq(Column(RowsOf(df, a), "purch"))
             users_B == NUnique(RowsOf(df, b))
             purchases_B == SumSeq(Column(RowsOf(df, b), "purch"))
             conversion_A == ConversionRate(purchases_A, users_A)
             conversion_B == ConversionRate(purchases_B, users_B)
             alpha_A == PosteriorAlpha(purchases_A)
             beta_A == PosteriorBeta(purchases_A, users_A)
             alpha_B == PosteriorAlpha(purchases_B)
             beta_B == PosteriorBeta(purchases_B, users_B)
             raises == BetaRaises(alpha_A, beta_A) \/ BetaRaises(alpha_B, beta_B)
             \* a run that raises stops before anything below is computed
             samples_A == IF raises THEN <<>> ELSE rnd.A
             samples_B == IF raises THEN <<>> ELSE rnd.B
             prob_B_better == IF raises THEN NaN ELSE ProbBBetter(samples_A, samples_B)
         IN  [kind |-> "compare_campaigns", shown |-> TRUE,
              error |-> IF raises THEN "ValueError" ELSE "none",
              A |-> a, B |-> b,
              users_A |-> users_A, purchases_A |-> purchases_A,
              users_B |-> users_B, purchases_B |-> purchases_B,
              conversion_A |-> conversion_A, conversion_B |-> conversion_B,
              uplift |-> Uplift(conversion_A, conversion_B),
              alpha_A |-> alpha_A, beta_A |-> beta_A,
              alpha_B |-> alpha_B, beta_B |-> beta_B,
              samples_A |-> samples_A, samples_B |-> samples_B,
              prob_B_better |-> prob_B_better,
              winner |-> IF raises THEN 0 ELSE Winner(a, b, prob_B_better),
              certainty |-> IF raises THEN NaN ELSE Certainty(prob_B_better)]

----------------------------------------------------------------------------
(* Columns of df.  A column name is modelled by its stem and the suffix     *)
(* that follows the stem's underscore: "keep_your_passwords_3" is the stem  *)
(* "keep_your_passwords" with suffix "3"; a name that is a stem alone has   *)
(* NoSuffix.                                                                *)

NoSuffix == ""
Col(stem, suffix) == [stem |-> stem, suffix |-> suffix]

RECURSIVE Flatten(_)
Flatten(ss) == IF ss = <<>> THEN <<>> ELSE Head(ss) \o Flatten(Tail(ss))

\* the flags of a question, one per listed suffix
FlagsOf(q) == [i \in 1..Len(q[2]) |-> Col(q[1], q[2][i])]

columns_to_split ==
    << <<"use_the_internet_for", <<"1", "2", "3", "4", "5", "6">> >>,
       <<"do_on_social_media", <<"1", "2", "3", "4">> >>,
       <<"enter_personal_details_online", <<"1", "2", "3", "4", "5", "6">> >> >>

columns_to_expand ==
    << <<"keep_your_passwords", <<"1", "2", "3", "4">> >>,
       <<"victim_of_online_scam", <<"1", "2">> >>,
       <<"nline_accounts_hacked", <<"1", "2">> >> >>

\* the keys of column_groups, in the order the columns are added
column_groups ==
    << Col("use_the_internet_for", "answered"), Col("do_on_social_media", "answered"),
       Col("enter_personal_details_online", "answered"),
       Col("keep_your_passwords", "answered"), Col("victim_of_online_scam", "answered"),
       Col("nline_accounts_hacked", "answered") >>

\* A sheet may bring a column of its own whose name starts with a question's
\* stem and underscore; the model has one, "use_the_internet_for_other".  A
\* row carries its cell in the field other: a number, or no value.  The
\* Data Preparation block does not fill this column.
OtherColumn == Col("use_the_internet_for", "other")
HasOther(df) == df # <<>> /\ "other" \in DOMAIN df[1]
OtherMissing(r) == "other" \in DOMAIN r /\ r.other = "NaN"

\* df.columns: the columns of the sheet, then the columns the Data
\* Preparation block adds, in the order it adds them
Columns(df) ==
    << Col("Campaign number", NoSuffix), Col("campaign", NoSuffix), Col("ruserid", NoSuffix),
       Col("use_the_internet_for", NoSuffix), Col("do_on_social_media", NoSuffix),
       Col("enter_personal_details_online", NoSuffix), Col("keep_your_passwords", NoSuffix),
       Col("victim_of_online_scam", NoSuffix), Col("nline_accounts_hacked", NoSuffix),
       Col("safety_level_quiz_score", NoSuffix), Col("breach_found", NoSuffix),
       Col("purcheas_ind", NoSuffix), Col("revenue", NoSuffix) >>
    \o (IF HasOther(df) THEN <<OtherColumn>> ELSE <<>>)
    \o Flatten([i \in 1..Len(columns_to_split) |-> FlagsOf(columns_to_split[i])])
    \o Flatten([i \in 1..Len(columns_to_expand) |-> FlagsOf(columns_to_expand[i])])
    \o column_groups
    \o << Col("finished_quiz", NoSuffix) >>

\* col.startswith(p) for a prefix p that is a stem and its underscore
StartsWith(col, p) == col.stem = p /\ col.suffix # NoSuffix

----------------------------------------------------------------------------
(* single_campaign page: Feature Importance Analysis *)

\* A label shown for a feature: a text, or the name of a column
Text(t) == [text |-> t, col |-> Col("", NoSuffix)]
FeatureName(c) == [text |-> "", col |-> c]
\* the missing value that Series.map leaves for a key without an entry
MissingLabel == Text("NaN")

features_list ==
    column_groups \o << Col("safety_level_quiz_score", NoSuffix), Col("breach_found", NoSuffix) >>

feature_display_names ==
    << "Internet Usage", "Social Media Activity", "Personal Details Sharing",
       "Password Management", "Past Scam Victim", "Account Hacking History",
       "Safety Quiz Score", "Security Breach" >>

prefixes ==
    << "use_the_internet_for", "do_on_social_media", "enter_personal_details_online",
       "keep_your_passwords", "victim_of_online_scam", "nline_accounts_hacked" >>

question_mapping ==
    << "What do you use the internet for?", "What do you do on social media?",
       "Do you enter personal details online?", "How do you keep your passwords?",
       "Victim of online scam?", "Account hacked before?" >>

\* the values of answer_mapping, question by question
answer_labels ==
    << << "Social media", "Banking & Finance", "Online shopping", "Gaming", "Streaming",
          "Research & Education" >>,
       << "News/Events", "Post Photos", "Entertainment", "Brand Research" >>,
       << "Credit Card", "Phone Number", "Passport", "Date of Birth", "Address", "SSN" >>,
       << "Notepad", "Computer", "Password Manager", "Remember Mentally" >>,
       << "No", "Yes" >>,
       << "No", "Yes" >> >>

\* Series.map(answer_mapping) on one feature
answer_mapping(col) ==
    LET qs == columns_to_split \o columns_to_expand
        hits == {ij \in (1..Len(qs)) \X (1..6) :
                    /\ ij[2] <= Len(qs[ij[1]][2])
                    /\ qs[ij[1]][1] = col.stem /\ qs[ij[1]][2][ij[2]] = col.suffix}
    IN  IF hits = {} THEN MissingLabel
        ELSE LET ij == CHOOSE h \in hits : TRUE IN Text(answer_labels[ij[1]][ij[2]])

\* Series.map(feature_display_names) on one feature
DisplayName(col) ==
    LET hits == {i \in 1..Len(features_list) : features_list[i] = col}
    IN  IF hits = {} THEN MissingLabel
        ELSE Text(feature_display_names[CHOOSE i \in hits : TRUE])

\* next((question_mapping[p] for p in prefixes if x.startswith(p)), "")
QuestionOf(col) ==
    LET hits == {i \in 1..Len(prefixes) : StartsWith(col, prefixes[i])}
    IN  IF hits = {} THEN ""
        ELSE question_mapping[CHOOSE i \in hits : \A j \in hits : i <= j]

\* [col for col in df.columns if any(col.startswith(p) for p in prefixes)]
option_columns(df) ==
    SelectSeq(Columns(df), LAMBDA c : \E i \in 1..Len(prefixes) : StartsWith(c, prefixes[i]))

\* df_camp[features_list + ["purcheas_ind"]].dropna(): every one of these
\* columns was filled or computed by the Data Preparation block
ModelDf(df_camp) == df_camp

\* df_camp[option_columns + ["purcheas_ind"]].dropna()
ModelDfDetail(df, df_camp) ==
    LET cols == option_columns(df)
    IN  IF \E i \in 1..Len(cols) : cols[i] = OtherColumn
        THEN SelectSeq(df_camp, LAMBDA r : ~OtherMissing(r))
        ELSE df_camp

\* variant: 30 records are enough
EnoughRecordsFromThirty(model_df) == Len(model_df) >= 30

\* model_df.shape[0] > 30
EnoughRecords(model_df) == Len(model_df) > 30

\* model.feature_importances_ of a fitted forest.  What the forest computes
\* from the feature values is not modelled: a fit yields one of a few
\* vectors of scores, named by their shape.  Scores are in units of their
\* sum; only their order matters to the script.
ForestShapes == {"zero", "first", "last", "rising", "paired"}

Importances(shape, n) ==
    [i \in 1..n |->
        CASE shape = "zero" -> 0
          [] shape = "first" -> IF i = 1 THEN 1 ELSE 0
          [] shape = "last" -> IF i = n THEN 1 ELSE 0
          [] shape = "rising" -> i
          [] shape = "paired" -> (i + 1) \div 2]

\* DataFrame.sort_values(by="Importance", ascending=False) with the default
\* kind='quicksort', which is not a stable sort: rows of equal Importance
\* come out in an order the library does not promise.  The model has two
\* outcomes: equal rows keep their order ("kept") or come out reversed.
TieOrders == {"kept", "reversed"}

RECURSIVE InsertRanked(_, _, _)
InsertRanked(x, s, tie) ==
    IF s = <<>> THEN <<x>>
    ELSE IF \/ x.Importance > Head(s).Importance
            \/ x.Importance = Head(s).Importance /\ tie = "kept"
         THEN <<x>> \o s
    ELSE <<Head(s)>> \o InsertRanked(x, Tail(s), tie)

RECURSIVE SortDescending(_, _)
SortDescending(s, tie) ==
    IF s = <<>> THEN <<>> ELSE InsertRanked(Head(s), SortDescending(Tail(s), tie), tie)

\* variant: the last ten rows are kept
LastTen(s) == SubSeq(s, IF Len(s) < 10 THEN 1 ELSE Len(s) - 9, Len(s))

\* .head(10)
HeadTen(s) == SubSeq(s, 1, IF Len(s) < 10 THEN Len(s) ELSE 10)

\* what a fit of the page yields: the two vectors of scores and the order of
\* equal rows
ForestRuns == [general : ForestShapes, detail : ForestShapes, tie : TieOrders]

NoAnalysis(model_df) ==
    [fitted |-> FALSE, records |-> Len(model_df), features |-> <<>>,
     scores |-> <<>>, ranking |-> <<>>,
     display_labels |-> <<>>, top |-> MissingLabel, related_question |-> ""]

\* the General Features tab
GeneralFeatures(df_camp, fit) ==
    LET model_df == ModelDf(df_camp)
        X == features_list
        scores == Importances(fit.general, Len(X))
        importances ==
            SortDescending([i \in 1..Len(X) |->
                               [Feature |-> X[i], Importance |-> scores[i],
                                Display |-> DisplayName(X[i]), Question |-> ""]], fit.tie)
    IN  IF ~EnoughRecords(model_df) THEN NoAnalysis(model_df)
        ELSE [fitted |-> TRUE, records |-> Len(model_df), features |-> X,
              scores |-> scores, ranking |-> importances,
              display_labels |-> [i \in 1..Len(importances) |-> importances[i].Display],
              \* top_feature
              top |-> importances[1].Display,
              related_question |-> ""]

\* the Specific Answers tab
SpecificAnswers(df, df_camp, fit) ==
    LET model_df_detail == ModelDfDetail(df, df_camp)
        X_detail == option_columns(df)
        scores == Importances(fit.detail, Len(X_detail))
        importances_detail ==
            HeadTen(SortDescending([i \in 1..Len(X_detail) |->
                               [Feature |-> X_detail[i], Importance |-> scores[i],
                                Display |-> answer_mapping(X_detail[i]),
                                Question |-> QuestionOf(X_detail[i])]], fit.tie))
    IN  IF ~EnoughRecords(model_df_detail) THEN NoAnalysis(model_df_detail)
        ELSE [fitted |-> TRUE, records |-> Len(model_df_detail), features |-> X_detail,
              scores |-> scores, ranking |-> importances_detail,
              \* importances_detail["Display"].fillna(importances_detail["Feature"])
              display_labels |->
                  [i \in 1..Len(importances_detail) |->
                      IF importances_detail[i].Display = MissingLabel
                      THEN FeatureName(importances_detail[i].Feature)
                      ELSE importances_detail[i].Display],
              \* top_answer and related_question
              top |-> importances_detail[1].Display,
              related_question |-> importances_detail[1].Question]

----------------------------------------------------------------------------
(* single_campaign page *)

ChartRow(df, c) ==
    LET rows == RowsOf(df, c)
        num_exposed == Count(rows)
        num_purchases == SumSeq(Column(rows, "purch"))
    IN  [cnum |-> c, num_exposed |-> num_exposed, num_purchases |-> num_purchases,
         conversion_rate |-> ConversionColumn(num_purchases, num_exposed)]

\* sort_values(by='conversion_rate', ascending=True); equal rates keep their order
RECURSIVE InsertByRate(_, _)
InsertByRate(x, s) ==
    IF s = <<>> THEN <<x>>
    ELSE IF Le(x.conversion_rate, Head(s).conversion_rate) THEN <<x>> \o s
    ELSE <<Head(s)>> \o InsertByRate(x, Tail(s))

RECURSIVE SortByRate(_)
SortByRate(s) ==
    IF s = <<>> THEN <<>> ELSE InsertByRate(Head(s), SortByRate(Tail(s)))

\* the conversion-by-campaign chart: campaigns with num_exposed > 0, by rate
AllCampaigns(df) ==
    LET order == SortedSeq(CampaignsOf(df))
        table == [i \in 1..Len(order) |-> ChartRow(df, order[i])]
    IN  SortByRate(SelectSeq(table, LAMBDA r : r.num_exposed > 0))

SingleDefault(df) ==
    IF df = <<>> THEN 0 ELSE SortedSeq(CampaignsOf(df))[1]

SingleView(df, c, fit) ==
    IF df = <<>> THEN [kind |-> "single_campaign", shown |-> FALSE, error |-> "none"]
    ELSE LET rows == RowsOf(df, c)
             total_users == NUnique(rows)
             purchases == SumSeq(Column(rows, "purch"))
             all_campaigns == AllCampaigns(df)
             found == {i \in 1..Len(all_campaigns) : all_campaigns[i].cnum = c}
         IN  [kind |-> "single_campaign", shown |-> TRUE,
              \* selected_rate = ...values[0] raises when the campaign was filtered out
              error |-> IF found = {} THEN "IndexError" ELSE "none",
              selected |-> c,
              total_users |-> total_users, purchases |-> purchases,
              conversion_rate |-> ConversionRate(purchases, total_users),
              general |-> GeneralFeatures(rows, fit),
              detail |-> SpecificAnswers(df, rows, fit),
              all_campaigns |-> all_campaigns,
              campaign_rank |-> IF found = {} THEN 0 ELSE CHOOSE i \in found : TRUE]

----------------------------------------------------------------------------
(* One run of the script *)

NoView == [kind |-> "none", shown |-> FALSE, error |-> "none"]

\* df where the run ended before load_data, and df holding the rows
NoDataframe == [loaded |-> FALSE, rows |-> <<>>]
Loaded(rows) == [loaded |-> TRUE, rows |-> rows]

\* what a run shows, given the session state it runs against, the selectbox
\* choices sel = <<a, b, c>> of the page it renders and what the libraries
\* yield during the run: rnd is the draw of the comparison page, or the
\* outcome of the fits of the single-campaign page
Render(auth, file, pg, budgets, sel, rnd) ==
    IF ~auth
    THEN [screen |-> "login", view |-> NoView, dataframe |-> NoDataframe,
          campaign_summary |-> <<>>, econ |-> NoEcon]
    ELSE IF ~file.present
    THEN [screen |-> "upload", view |-> NoView, dataframe |-> NoDataframe,
          campaign_summary |-> <<>>, econ |-> NoEcon]
    ELSE IF DataPreparation(file) # "prepared"
    THEN [screen |-> DataPreparation(file), view |-> NoView,
          dataframe |-> Loaded(file.rows), campaign_summary |-> <<>>, econ |-> NoEcon]
    ELSE LET df == LoadData(file)
         IN  CASE pg = "home" ->
                    [screen |-> pg, view |-> HomeView(df), dataframe |-> Loaded(df),
                     campaign_summary |-> <<>>, econ |-> NoEcon]
               [] pg = "compare_campaigns" ->
                    [screen |-> pg, view |-> CompareView(df, sel[1], sel[2], rnd),
                     dataframe |-> Loaded(df),
                     campaign_summary |-> <<>>, econ |-> NoEcon]
               [] pg = "single_campaign" ->
                    [screen |-> pg, view |-> SingleView(df, sel[3], rnd),
                     dataframe |-> Loaded(df),
                     campaign_summary |-> <<>>, econ |-> NoEcon]
               [] pg = "campaign_insights" ->
                    IF df = <<>>
                    THEN [screen |-> pg, view |-> NoView, dataframe |-> Loaded(df),
                          campaign_summary |-> <<>>, econ |-> NoEcon]
                    ELSE LET agg == Aggregator(df)
                         IN  [screen |-> pg, view |-> NoView,
                              dataframe |-> Loaded(agg.df),
                              campaign_summary |-> agg.campaign_summary,
                              econ |-> Economics(agg.campaign_summary, budgets)]

\* the choices the selectboxes show when a page is first rendered
DefaultSel(file) ==
    LET df == LoadData(file)
    IN  <<CompareDefault(df)[1], CompareDefault(df)[2], SingleDefault(df)>>

Shows(out) ==
    LET o == out
    IN  /\ screen' = o.screen
        /\ view' = o.view
        /\ dataframe' = o.dataframe
        /\ campaign_summary' = o.campaign_summary
        /\ econ' = o.econ

----------------------------------------------------------------------------
(* The session *)

USER_CREDENTIALS == [u \in {"resonlabs"} |-> "1234"]

Init ==
    /\ authenticated = FALSE
    /\ username = ""
    /\ uploaded_file = NoFile
    /\ login_attempt_failed = FALSE
    /\ page = "home"
    /\ pba_budget_data = <<>>
    /\ screen = "login"
    /\ view = NoView
    /\ dataframe = NoDataframe
    /\ campaign_summary = <<>>
    /\ econ = NoEcon

\* The actions take the sets D of library outcomes that a run chooses among.

\* variant: the pair is not looked up in the credential table
LoginOkUnchecked(u, p, D) ==
    /\ ~authenticated
    /\ authenticated' = TRUE
    /\ username' = u
    /\ login_attempt_failed' = FALSE
    /\ UNCHANGED <<uploaded_file, page, pba_budget_data>>
    /\ \E rnd \in DrawsOn(page, D) :
           Shows(Render(TRUE, uploaded_file, page, pba_budget_data,
                        DefaultSel(uploaded_file), rnd))

\* login_form submitted with a matching pair: the flags are set and the script reruns
LoginOk(u, p, D) ==
    /\ ~authenticated
    /\ u \in DOMAIN USER_CREDENTIALS /\ USER_CREDENTIALS[u] = p
    /\ authenticated' = TRUE
    /\ username' = u
    /\ login_attempt_failed' = FALSE
    /\ UNCHANGED <<uploaded_file, page, pba_budget_data>>
    /\ \E rnd \in DrawsOn(page, D) :
           Shows(Render(TRUE, uploaded_file, page, pba_budget_data,
                        DefaultSel(uploaded_file), rnd))

\* login_form submitted with any other pair: the error is shown, the run stops
LoginFail(u, p) ==
    /\ ~authenticated
    /\ ~(u \in DOMAIN USER_CREDENTIALS /\ USER_CREDENTIALS[u] = p)
    /\ login_attempt_failed' = TRUE
    /\ UNCHANGED <<authenticated, username, uploaded_file, page, pba_budget_data>>
    /\ Shows(Render(FALSE, uploaded_file, page, pba_budget_data,
                    DefaultSel(uploaded_file), NoDraw))

\* a sheet (one of F) is dropped on the uploader: it is stored and the script reruns
Upload(F, D) ==
    /\ authenticated /\ ~uploaded_file.present
    /\ \E f \in F :
        /\ uploaded_file' = f
        /\ \E rnd \in DrawsOn(page, D) :
               Shows(Render(authenticated, f, page, pba_budget_data, DefaultSel(f), rnd))
    /\ UNCHANGED <<authenticated, username, login_attempt_failed, page, pba_budget_data>>

\* variant: a change of page starts the budgets afresh
NavigateResetsBudgets(pg, D) ==
    /\ authenticated /\ uploaded_file.present
    /\ screen \in Pages
    /\ page' = pg
    /\ pba_budget_data' = <<>>
    /\ UNCHANGED <<authenticated, username, uploaded_file, login_attempt_failed>>
    /\ \E rnd \in DrawsOn(pg, D) :
           Shows(Render(authenticated, uploaded_file, pg, <<>>,
                        DefaultSel(uploaded_file), rnd))

\* one of the four sidebar forms is submitted; the sidebar is there when the
\* last run went past the Data Preparation block
Navigate(pg, D) ==
    /\ authenticated /\ uploaded_file.present
    /\ screen \in Pages
    /\ page' = pg
    /\ UNCHANGED <<authenticated, username, uploaded_file, login_attempt_failed,
                   pba_budget_data>>
    /\ \E rnd \in DrawsOn(pg, D) :
           Shows(Render(authenticated, uploaded_file, pg, pba_budget_data,
                        DefaultSel(uploaded_file), rnd))

\* a selectbox of the comparison page is changed
SelectCompare(a, b, D) ==
    /\ screen = "compare_campaigns" /\ view.shown
    /\ <<a, b>> \in CompareChoices(LoadData(uploaded_file))
    /\ UNCHANGED <<authenticated, username, uploaded_file, login_attempt_failed, page,
                   pba_budget_data>>
    /\ \E rnd \in DrawsOn(page, D) :
           Shows(Render(authenticated, uploaded_file, page, pba_budget_data,
                        <<a, b, 0>>, rnd))

\* the selectbox of the single-campaign page is changed
SelectSingle(c, D) ==
    /\ screen = "single_campaign" /\ view.shown
    /\ c \in CampaignsOf(LoadData(uploaded_file))
    /\ UNCHANGED <<authenticated, username, uploaded_file, login_attempt_failed, page,
                   pba_budget_data>>
    /\ \E rnd \in DrawsOn(page, D) :
           Shows(Render(authenticated, uploaded_file, page, pba_budget_data,
                        <<0, 0, c>>, rnd))

\* the keys a submit of pba_budget_input_form carries: one number_input
\* (min_value 0.0) per row of the aggregate table
BudgetKeys(summary) == {summary[i].cnum : i \in 1..Len(summary)}

\* "Calculate Metrics": the map is replaced and the script reruns
SubmitBudgets(b, D) ==
    /\ screen = "campaign_insights" /\ campaign_summary # <<>>
    /\ DOMAIN b = BudgetKeys(campaign_summary)
    /\ \A c \in DOMAIN b : b[c] >= 0
    /\ pba_budget_data' = b
    /\ UNCHANGED <<authenticated, username, uploaded_file, login_attempt_failed, page>>
    /\ \E rnd \in DrawsOn(page, D) :
           Shows(Render(authenticated, uploaded_file, page, b,
                        DefaultSel(uploaded_file), rnd))

\* the maps over the campaigns of some sheet, with values from B
BudgetMaps(B) ==
    UNION {[K -> B] : K \in (SUBSET CampaignNumbers) \ {{}}}

\* what the session machine explores: on the comparison page the draws whose
\* pairs all have the same strict winner; on the single-campaign page no
\* campaign of its sheets has more than 30 rows, so no fit is made and one
\* outcome stands for all
SessionDraws ==
    [compare |-> {d \in Draws : \A i \in 1..NSamples :
                      d.A[i] = d.A[1] /\ d.B[i] = d.B[1] /\ d.A[i] # d.B[i]},
     single |-> {[general |-> "zero", detail |-> "zero", tie |-> "kept"]}]

Next ==
    \/ \E u \in LoginNames, p \in LoginPasswords : LoginOk(u, p, SessionDraws)
    \/ \E u \in LoginNames, p \in LoginPasswords : LoginFail(u, p)
    \/ Upload(Files \cup MissingFiles, SessionDraws)
    \/ \E pg \in Pages : Navigate(pg, SessionDraws)
    \/ \E a \in CampaignNumbers, b \in CampaignNumbers : SelectCompare(a, b, SessionDraws)
    \/ \E c \in CampaignNumbers : SelectSingle(c, SessionDraws)
    \/ \E b \in BudgetMaps(BudgetChoices) : SubmitBudgets(b, SessionDraws)

Spec == Init /\ [][Next]_vars

----------------------------------------------------------------------------
(* The economics of one campaign over wider numbers.  The session is taken  *)
(* where a user has logged in, uploaded a one-campaign sheet and opened the *)
(* campaign_insights page; the only step is the budget form.  The sheet     *)
(* has p paying users of revenue v each and one row without a user id       *)
(* whose revenue is w.                                                      *)

\* revenues and budgets in steps of 100 (the step of the budget inputs)
EconRevenues == {100 * k : k \in 1..MaxRevenueUnits}
EconBudgets == {100 * k : k \in 0..MaxBudgetUnits}

EconFile(p, v, w) ==
    [present |-> TRUE,
     rows |-> [i \in 1..p |-> [camp |-> 1, user |-> i, purch |-> 1, rev |-> v]]
              \o <<[camp |-> 1, user |-> NoUser, purch |-> 0, rev |-> w]>>,
     missing |-> {}]

EconFiles ==
    {EconFile(p, v, w) : p \in 0..MaxPayers, v \in EconRevenues, w \in {0, 100}}

InitEcon ==
    /\ authenticated = TRUE
    /\ username = "resonlabs"
    /\ uploaded_file \in EconFiles
    /\ login_attempt_failed = FALSE
    /\ page = "campaign_insights"
    /\ pba_budget_data = <<>>
    /\ screen = "campaign_insights"
    /\ view = NoView
    /\ dataframe = Loaded(Aggregator(LoadData(uploaded_file)).df)
    /\ campaign_summary = CampaignSummary(LoadData(uploaded_file))
    /\ econ = NoEcon

NextEcon == \E b \in [{1} -> EconBudgets] : SubmitBudgets(b, SessionDraws)

SpecEcon == InitEcon /\ [][NextEcon]_vars

----------------------------------------------------------------------------
(* The comparison of two campaigns over wider numbers and over every draw.  *)
(* The session is taken where a user has logged in, uploaded a sheet of two *)
(* campaigns and opened the compare_campaigns page; the only step is a      *)
(* change of the two selectboxes.                                           *)

\* the rows of a campaign with u distinct users of which the first p have
\* purchased; purchases beyond u sit on rows without a user id
CompareRows(c, p, u) ==
    [i \in 1..u |-> [camp |-> c, user |-> i, purch |-> IF i <= p THEN 1 ELSE 0, rev |-> 0]]
    \o [i \in 1..(IF p > u THEN p - u ELSE 0) |->
           [camp |-> c, user |-> NoUser, purch |-> 1, rev |-> 0]]

CompareFile(pA, uA, pB, uB) ==
    [present |-> TRUE, rows |-> CompareRows(1, pA, uA) \o CompareRows(2, pB, uB),
     missing |-> {}]

\* every pair of small campaigns that both have a row, and the pair
\* 10 of 200 against 25 of 200
CompareFiles ==
    {f \in {CompareFile(pA, uA, pB, uB) :
                pA \in 0..MaxCompareUsers, uA \in 0..MaxCompareUsers,
                pB \in 0..MaxCompareUsers, uB \in 0..MaxCompareUsers} :
        Cardinality(CampaignsOf(f.rows)) = 2}

InitCompare ==
    /\ authenticated = TRUE
    /\ username = "resonlabs"
    /\ uploaded_file \in CompareFiles \cup {CompareFile(10, 200, 25, 200)}
    /\ login_attempt_failed = FALSE
    /\ page = "compare_campaigns"
    /\ pba_budget_data = <<>>
    /\ screen = "compare_campaigns"
    /\ view \in {CompareView(LoadData(uploaded_file), 1, 2, rnd) : rnd \in Draws}
    /\ dataframe = Loaded(LoadData(uploaded_file))
    /\ campaign_summary = <<>>
    /\ econ = NoEcon

NextCompare ==
    \E a \in CampaignNumbers, b \in CampaignNumbers :
        SelectCompare(a, b, [compare |-> Draws, single |-> {}])

SpecCompare == InitCompare /\ [][NextCompare]_vars

----------------------------------------------------------------------------
(* The feature importance analysis over campaigns of about 30 rows and over *)
(* the outcomes of the fits.  The session is taken where a user has logged  *)
(* in, uploaded a sheet and opened the single_campaign page; the only step  *)
(* is a change of the selectbox.  Campaign 1 has n rows, campaign 2 has     *)
(* one.  The sheet has no column "use_the_internet_for_other" (m < 0), or   *)
(* has it with no value in the first m rows.                                *)

AttributionFile(n, m) ==
    LET base(i, c) == [camp |-> c, user |-> i, purch |-> IF i % 3 = 0 THEN 1 ELSE 0, rev |-> 0]
        cell(i) == [other |-> IF i <= m THEN "NaN" ELSE "1"]
        rows == [i \in 1..(n + 1) |-> base(i, IF i <= n THEN 1 ELSE 2)]
    IN  [present |-> TRUE,
         rows |-> IF m < 0 THEN rows
                  ELSE [i \in 1..(n + 1) |-> [f \in (DOMAIN rows[i]) \cup {"other"} |->
                           IF f = "other" THEN cell(i).other ELSE rows[i][f]]],
         missing |-> {}]

AttributionFiles ==
    {AttributionFile(n, m) : n \in 29..MaxRecords, m \in (-1)..MaxMissing}

InitAttribution ==
    /\ authenticated = TRUE
    /\ username = "resonlabs"
    /\ uploaded_file \in AttributionFiles
    /\ login_attempt_failed = FALSE
    /\ page = "single_campaign"
    /\ pba_budget_data = <<>>
    /\ screen = "single_campaign"
    /\ view \in {SingleView(LoadData(uploaded_file), 1, fit) : fit \in ForestRuns}
    /\ dataframe = Loaded(LoadData(uploaded_file))
    /\ campaign_summary = <<>>
    /\ econ = NoEcon

NextAttribution ==
    \E c \in CampaignNumbers : SelectSingle(c, [compare |-> {}, single |-> ForestRuns])

SpecAttribution == InitAttribution /\ [][NextAttribution]_vars

----------------------------------------------------------------------------
(* Properties of the comparison *)

\* the last run reported a comparison
Compared == view.kind = "compare_campaigns" /\ view.shown /\ view.error = "none"

\* purchases per user in percent, 0 for a campaign without users
RateOf(purchases, users) ==
    IF users > 0 THEN Fin(100 * purchases, users) ELSE Num(0)

\* C11: the reported uplift is the rate of B minus the rate of A, whatever
\* samples the run drew; 10 of 200 against 25 of 200 gives 7.5
C11_UpliftPointEstimate ==
    Compared =>
        /\ view.uplift = Sub(RateOf(view.purchases_B, view.users_B),
                             RateOf(view.purchases_A, view.users_A))
        /\ (/\ view.purchases_A = 10 /\ view.users_A = 200
            /\ view.purchases_B = 25 /\ view.users_B = 200)
           => view.uplift = Fin(15, 2)

\* the example, in a run whose samples all favour A
C11_Witness ==
    /\ Compared
    /\ view.purchases_A = 10 /\ view.users_A = 200
    /\ view.purchases_B = 25 /\ view.users_B = 200
    /\ view.uplift = Fin(15, 2)
    /\ \A i \in 1..NSamples : Gt(view.samples_A[i], view.samples_B[i])

\* the percentage of the pairs of the last run in which x's sample is
\* greater than y's (strictly, or not strictly)
ShareGreater(x, y) ==
    Fin(100 * Cardinality({i \in 1..NSamples : Lt(y[i], x[i])}), NSamples)

ShareGreaterOrEqual(x, y) ==
    Fin(100 * Cardinality({i \in 1..NSamples : Le(y[i], x[i])}), NSamples)

\* prob_B_better, the winner and the certainty as the claim states them,
\* up to what the certainty of a winner A stands for
WinnerAndCertainty ==
    /\ view.prob_B_better = ShareGreater(view.samples_B, view.samples_A)
    /\ Le(Num(0), view.prob_B_better) /\ Le(view.prob_B_better, Num(100))
    /\ view.winner = (IF Lt(Num(50), view.prob_B_better) THEN view.B ELSE view.A)
    /\ view.prob_B_better = Num(50) => view.winner = view.A
    /\ \/ view.certainty = view.prob_B_better
       \/ view.certainty = Sub(Num(100), view.prob_B_better)
    /\ Le(view.prob_B_better, view.certainty)
    /\ Le(Sub(Num(100), view.prob_B_better), view.certainty)
    /\ Le(Num(50), view.certainty) /\ Le(view.certainty, Num(100))
    /\ view.winner = view.B => view.certainty = ShareGreater(view.samples_B, view.samples_A)

SwapStep ==
    /\ Compared /\ Compared'
    /\ view'.A = view.B /\ view'.B = view.A
    /\ \A i \in 1..NSamples : view.samples_A[i] # view.samples_B[i]
    /\ \A i \in 1..NSamples : view'.samples_A[i] # view'.samples_B[i]

\* C13: when a comparison is recomputed with A and B exchanged, the
\* prob_B_better of the two comparisons add up to 100
C13_SwapSumsToHundred ==
    [][SwapStep => view'.prob_B_better = Sub(Num(100), view.prob_B_better)]_vars

----------------------------------------------------------------------------
(* Properties of the feature importance analysis *)

\* the last run showed the single-campaign page
Analysed == view.kind = "single_campaign" /\ view.shown

\* the rows of the selected campaign in the stored sheet, and those of them
\* without a missing value in a column the Specific Answers tab selects
SelectedRows ==
    {i \in 1..Len(uploaded_file.rows) : uploaded_file.rows[i].camp = view.selected}

CompleteRows ==
    {i \in SelectedRows : ~("other" \in DOMAIN uploaded_file.rows[i]
                            /\ uploaded_file.rows[i].other = "NaN")}

OptionFlags ==
    {Col(q, k) : q \in {"use_the_internet_for", "enter_personal_details_online"},
                 k \in {"1", "2", "3", "4", "5", "6"}}
    \cup {Col(q, k) : q \in {"do_on_social_media", "keep_your_passwords"},
                      k \in {"1", "2", "3", "4"}}
    \cup {Col(q, k) : q \in {"victim_of_online_scam", "nline_accounts_hacked"},
                      k \in {"1", "2"}}

\* C15: the features of a Specific Answers fit are exactly the 24 option
\* flags; no "answered" flag of a question is among them or in the ranking
C15_DetailedFeaturesAreOptionFlags ==
    (Analysed /\ view.detail.fitted) =>
        /\ {view.detail.features[i] : i \in 1..Len(view.detail.features)} = OptionFlags
        /\ Len(view.detail.features) = 24
        /\ \A i \in 1..Len(view.detail.ranking) :
               view.detail.ranking[i].Feature.suffix # "answered"

\* the position of a feature among the columns a tab fitted
PositionIn(features, f) == CHOOSE i \in 1..Len(features) : features[i] = f

\* the ranking of a tab is by descending Importance
Descending(tab) ==
    \A i \in 1..(Len(tab.ranking) - 1) :
        tab.ranking[i].Importance >= tab.ranking[i + 1].Importance

\* features of equal Importance are ranked in the order of their columns
TiesInColumnOrder(tab) ==
    \A i \in 1..(Len(tab.ranking) - 1) :
        tab.ranking[i].Importance = tab.ranking[i + 1].Importance =>
            PositionIn(tab.features, tab.ranking[i].Feature)
                < PositionIn(tab.features, tab.ranking[i + 1].Feature)

\* C16: every ranking is by descending importance, features of equal
\* importance keep the order of their columns, and the feature reported as
\* the strongest is the first of the ranking
C16_RankingDescendingStable ==
    Analysed =>
        /\ view.general.fitted =>
              /\ Descending(view.general) /\ TiesInColumnOrder(view.general)
              /\ view.general.top = view.general.ranking[1].Display
        /\ view.detail.fitted =>
              /\ Descending(view.detail) /\ TiesInColumnOrder(view.detail)
              /\ view.detail.top = view.detail.ranking[1].Display

\* the features a tab ranks, and the score the fit gave a feature
Ranked(tab) == {tab.ranking[i].Feature : i \in 1..Len(tab.ranking)}
ScoreOf(tab, f) == tab.scores[PositionIn(tab.features, f)]

\* every row of the ranking is a fitted feature with its score, no feature twice
RanksFittedFeatures(tab) ==
    /\ \A i \in 1..Len(tab.ranking) :
           /\ \E j \in 1..Len(tab.features) : tab.features[j] = tab.ranking[i].Feature
           /\ tab.ranking[i].Importance = ScoreOf(tab, tab.ranking[i].Feature)
    /\ Cardinality(Ranked(tab)) = Len(tab.ranking)

\* C17: the Specific Answers output has min(10, number of fitted features)
\* rows, by descending importance, and no feature left out has a higher
\* importance than one that is kept; the General Features output has every
\* fitted feature
C17_TopTenOfDetailed ==
    Analysed =>
        /\ view.detail.fitted =>
              /\ Len(view.detail.ranking) =
                     (IF Len(view.detail.features) < 10 THEN Len(view.detail.features) ELSE 10)
              /\ RanksFittedFeatures(view.detail) /\ Descending(view.detail)
              /\ \A j \in 1..Len(view.detail.features), i \in 1..Len(view.detail.ranking) :
                     view.detail.features[j] \notin Ranked(view.detail) =>
                         view.detail.scores[j] <= view.detail.ranking[i].Importance
        /\ view.general.fitted =>
              /\ Len(view.general.ranking) = Len(view.general.features)
              /\ RanksFittedFeatures(view.general)
              /\ Ranked(view.general) =
                     {view.general.features[j] : j \in 1..Len(view.general.features)}

\* both tabs fitted on scores that all differ: 10 of the 30 detailed features
\* are shown, all 8 general ones
C17_Witness ==
    /\ Analysed /\ view.detail.fitted /\ view.general.fitted
    /\ Len(view.detail.features) = 30 /\ Len(view.detail.ranking) = 10
    /\ Len(view.general.ranking) = 8
    /\ view.detail.ranking[10].Importance > view.detail.scores[1]
    /\ \A i \in 1..9 : view.detail.ranking[i].Importance > view.detail.ranking[i + 1].Importance

\* the question a feature name belongs to by its prefix
QuestionByPrefix(f) ==
    IF f.suffix = NoSuffix THEN ""
    ELSE CASE f.stem = "use_the_internet_for" -> "What do you use the internet for?"
           [] f.stem = "do_on_social_media" -> "What do you do on social media?"
           [] f.stem = "enter_personal_details_online" -> "Do you enter personal details online?"
           [] f.stem = "keep_your_passwords" -> "How do you keep your passwords?"
           [] f.stem = "victim_of_online_scam" -> "Victim of online scam?"
           [] f.stem = "nline_accounts_hacked" -> "Account hacked before?"
           [] OTHER -> ""

\* the answer label of a feature: its entry of the mapping, or its own name
AnswerLabelOrName(f) ==
    IF f \in OptionFlags THEN answer_mapping(f) ELSE FeatureName(f)

\* C18: every row of the Specific Answers output has the question of its
\* prefix and an answer label that is the feature's entry of the mapping or,
\* without an entry, the feature's name; the top-answer insight shows that
\* same label and question for the first row
C18_AnswerLabelDefaultsToName ==
    (Analysed /\ view.detail.fitted) =>
        /\ \A i \in 1..Len(view.detail.ranking) :
              /\ view.detail.ranking[i].Question =
                     QuestionByPrefix(view.detail.ranking[i].Feature)
              /\ view.detail.display_labels[i] =
                     AnswerLabelOrName(view.detail.ranking[i].Feature)
        /\ view.detail.top = AnswerLabelOrName(view.detail.ranking[1].Feature)
        /\ view.detail.related_question = QuestionByPrefix(view.detail.ranking[1].Feature)

----------------------------------------------------------------------------
(* Properties of the economics rows *)

\* the rows of the economics section the last run computed
EconRows == IF econ.computed THEN {econ.rows[i] : i \in 1..Len(econ.rows)} ELSE {}

\* exact quotient of two fractions, the divisor not zero
Quot(a, b) == Fin(a.n * b.d, a.d * b.n)

Statuses == {"No Payers", "LTV unavailable", "Excellent", "Good", "Break-even",
             "Losing Money"}

\* the status the priority order of the specification assigns to a row
StatusByOrder(r) ==
    CASE r.payers = 0 -> "No Payers"
      [] r.payers # 0 /\ (Le(r.ltv, Num(0)) \/ ~IsFin(r.cac) \/ IsZero(r.cac)
                           \/ Le(r.ltv_cac, Num(0))) -> "LTV unavailable"
      [] OTHER ->
           IF Ge(r.ltv_cac, Num(3)) THEN "Excellent"
           ELSE IF Ge(r.ltv_cac, Fin(15, 10)) THEN "Good"
           ELSE IF Ge(r.ltv_cac, Num(1)) THEN "Break-even"
           ELSE "Losing Money"

\* C1: every included row carries exactly one status, the first match of
\* No Payers (payers = 0), LTV unavailable (ltv <= 0, cac not finite or zero,
\* ratio <= 0), Excellent (ratio >= 3.0), Good (>= 1.5), Break-even (>= 1.0),
\* Losing Money; the values 3.0, 1.5 and 1.0 fall in the higher band.
C1_StatusFirstMatch ==
    \A r \in EconRows :
        /\ r.budget > 0
        /\ r.status \in Statuses
        /\ r.status = StatusByOrder(r)
        /\ (r.payers > 0 /\ r.ltv_cac = Num(3)) => r.status = "Excellent"
        /\ (r.payers > 0 /\ r.ltv_cac = Fin(3, 2)) => r.status = "Good"
        /\ (r.payers > 0 /\ r.ltv_cac = Num(1)) => r.status = "Break-even"

\* a row whose ratio is exactly 1.0 and whose status is Break-even
C1_Witness ==
    \E r \in EconRows : r.payers > 0 /\ r.ltv_cac = Num(1) /\ r.status = "Break-even"

\* the advice the priority order of the specification assigns to a row
RecommendationByOrder(r) ==
    CASE r.payers = 0 -> "No paying users - review targeting."
      [] r.payers # 0 /\ Lt(r.roi, Num(0)) ->
           "Consider reducing budget or changing strategy."
      [] OTHER ->
           IF Ge(r.ltv_cac, Num(3))
           THEN "Excellent efficiency - consider scaling this campaign."
           ELSE IF Ge(r.ltv_cac, Fin(15, 10))
           THEN "Good profitability - consider increasing budget."
           ELSE IF Ge(r.ltv_cac, Num(1)) THEN "At break-even - optimize for better ROI."
           ELSE "Monitor performance closely and adjust strategy."

\* C2: every included row carries the advice that is the first match of
\* payers = 0, roi < 0, ratio >= 3.0, ratio >= 1.5, ratio >= 1.0, otherwise;
\* roi is tested before the ratio thresholds, and the status of the row is
\* the one of the roi-free order of C1.
C2_RecommendationFirstMatch ==
    \A r \in EconRows :
        /\ r.recommendation = RecommendationByOrder(r)
        /\ (r.payers > 0 /\ Lt(r.roi, Num(0))) =>
               r.recommendation = "Consider reducing budget or changing strategy."
        /\ r.status = StatusByOrder(r)

\* a row with payers whose roi is exactly 0: not the roi < 0 advice
C2_Witness ==
    \E r \in EconRows :
        /\ r.payers > 0 /\ r.roi = Num(0)
        /\ r.recommendation = "At break-even - optimize for better ROI."

\* C3: the ratio of a row is ltv / cac when cac is finite and nonzero and
\* ltv > 0, and the 0 sentinel (shown as N/A) in every other case; a row
\* with payers = 0 has the sentinel whatever its revenue; no division of the
\* row has a zero or infinite divisor.
C3_RatioOnlyWhenDefined ==
    \A r \in EconRows :
        /\ IF IsFin(r.cac) /\ ~IsZero(r.cac) /\ Gt(r.ltv, Num(0))
           THEN r.ltv_cac = Quot(r.ltv, r.cac)
           ELSE r.ltv_cac = Num(0) /\ r.show_ratio = NotAvailable
        /\ r.payers = 0 => r.ltv_cac = Num(0) /\ r.show_ratio = NotAvailable
        /\ \A x \in r.divisors : IsFin(x) /\ ~IsZero(x)
        /\ DivError \notin {r.cac, r.roi, r.ltv, r.ltv_cac}

\* a row without payers whose revenue is > 0: the ratio is the sentinel
C3_Witness ==
    \E r \in EconRows :
        r.payers = 0 /\ r.revenue > 0 /\ r.ltv_cac = Num(0) /\ r.show_ratio = NotAvailable

\* C4: cac is budget / payers when payers > 0 and +infinity when payers = 0,
\* never a division error; payers = 0, revenue = 0, budget = 500 gives
\* cac = +infinity, status No Payers and an unavailable ratio.
C4_CacOrInfinity ==
    \A r \in EconRows :
        /\ r.payers > 0 => r.cac = Fin(r.budget, r.payers)
        /\ r.payers = 0 => r.cac = Inf
        /\ r.cac # DivError
        /\ (r.payers = 0 /\ r.revenue = 0 /\ r.budget = 500) =>
               /\ r.cac = Inf
               /\ r.status = "No Payers"
               /\ r.ltv_cac = Num(0) /\ r.show_ratio = NotAvailable

\* the example row: payers = 0, revenue = 0, budget = 500
C4_Witness ==
    \E r \in EconRows :
        r.payers = 0 /\ r.revenue = 0 /\ r.budget = 500 /\ r.cac = Inf

\* C6: roi is (revenue - budget) / budget * 100, and cac, ltv, ratio and
\* status go with it; budget = 1000, revenue = 4000, payers = 10 gives
\* cac = 100, ltv = 400, ratio = 4.0, status Excellent and roi = 300.
C6_RoiAndExample ==
    \A r \in EconRows :
        /\ r.roi = Fin((r.revenue - r.budget) * 100, r.budget)
        /\ r.payers > 0 =>
               /\ r.cac = Fin(r.budget, r.payers)
               /\ r.ltv = Fin(r.revenue, r.payers)
               /\ r.ltv_cac = Fin(r.revenue, r.budget)
               /\ r.roi = Mul(Sub(r.ltv_cac, Num(1)), Num(100))
               /\ (r.status \in {"Excellent", "Good", "Break-even"}) = Ge(r.roi, Num(0))
        /\ (r.budget = 1000 /\ r.revenue = 4000 /\ r.payers = 10) =>
               /\ r.cac = Num(100)
               /\ r.ltv = Num(400)
               /\ r.ltv_cac = Num(4)
               /\ r.status = "Excellent"
               /\ r.roi = Num(300)

\* the example row: budget = 1000, revenue = 4000, payers = 10
C6_Witness ==
    \E r \in EconRows :
        r.budget = 1000 /\ r.revenue = 4000 /\ r.payers = 10 /\ r.roi = Num(300)

\* the status and the recommendation of a row are the pair st, rec or neither
Paired(r, st, rec) == (r.status = st) <=> (r.recommendation = rec)

\* the five pairs, and the two texts that no row shows
StatusMatchesRecommendation(r) ==
    /\ Paired(r, "No Payers", "No paying users - review targeting.")
    /\ Paired(r, "Losing Money", "Consider reducing budget or changing strategy.")
    /\ Paired(r, "Excellent", "Excellent efficiency - consider scaling this campaign.")
    /\ Paired(r, "Good", "Good profitability - consider increasing budget.")
    /\ Paired(r, "Break-even", "At break-even - optimize for better ROI.")
    /\ r.status # "LTV unavailable"
    /\ r.recommendation # "Monitor performance closely and adjust strategy."

----------------------------------------------------------------------------
(* Properties of the aggregate table *)

\* the records of campaign c in the stored sheet (as row numbers)
RecordsOf(c) == {i \in 1..Len(uploaded_file.rows) : uploaded_file.rows[i].camp = c}

\* a record whose purchase flag and revenue disagree
Diverging(i) ==
    LET r == uploaded_file.rows[i]
    IN  (r.purch = 1 /\ r.rev = 0) \/ (r.purch = 0 /\ r.rev > 0)

\* payers, revenue and purchases of every row of the aggregate table, each
\* from its own column
AggregatesByColumn ==
    \A k \in 1..Len(campaign_summary) :
        LET a == campaign_summary[k]
            rows == uploaded_file.rows
        IN  /\ a.Payers = Cardinality({rows[i].user : i \in
                              {j \in RecordsOf(a.cnum) : rows[j].rev > 0}} \ {NoUser})
            /\ a.Revenue = SumSeq([i \in 1..Len(rows) |->
                              IF i \in RecordsOf(a.cnum) /\ rows[i].rev > 0
                              THEN rows[i].rev ELSE 0])
            /\ a.Purchases = SumSeq([i \in 1..Len(rows) |->
                              IF i \in RecordsOf(a.cnum) THEN rows[i].purch ELSE 0])

\* C19 as stated: payers are the distinct users with revenue > 0, revenue is
\* the sum of the revenues > 0, purchases the sum of the purchase flag; a
\* campaign with a record whose flag and revenue disagree has
\* purchases # payers
C19_DivergingRecordSeparatesCounts ==
    /\ AggregatesByColumn
    /\ \A k \in 1..Len(campaign_summary) :
           (\E i \in RecordsOf(campaign_summary[k].cnum) : Diverging(i))
               => campaign_summary[k].Purchases # campaign_summary[k].Payers

\* C19 as amended: the same aggregates; purchases # payers when the
\* campaign's only record is one whose flag and revenue disagree and that
\* has a user id
C19_PayersByRevenue ==
    /\ AggregatesByColumn
    /\ \A k \in 1..Len(campaign_summary) :
           (\E i \in RecordsOf(campaign_summary[k].cnum) :
                /\ RecordsOf(campaign_summary[k].cnum) = {i}
                /\ Diverging(i) /\ uploaded_file.rows[i].user # NoUser)
               => campaign_summary[k].Purchases # campaign_summary[k].Payers

\* one campaign with the flag set and no revenue, one with revenue and no flag
C19_Witness ==
    /\ Len(campaign_summary) = 2
    /\ campaign_summary[1].Purchases = 1 /\ campaign_summary[1].Payers = 0
    /\ campaign_summary[2].Purchases = 0 /\ campaign_summary[2].Payers = 1
    /\ campaign_summary[2].Revenue > 0

\* the aggregation has run: the page is shown for a sheet with a data row
Aggregated == screen = "campaign_insights" /\ LoadData(uploaded_file) # <<>>

\* run on the dataset the last run left, the aggregation gives the table again
SameTableAgain == Aggregator(dataframe.rows).campaign_summary = campaign_summary

\* C21: the aggregation is a pure function of the records: run a second
\* time on the dataset it gives the same aggregate values for every
\* campaign, and it leaves the dataset as it found it, with no column or row
\* added, removed or modified
C21_AggregatorPureIdempotent ==
    Aggregated =>
        /\ campaign_summary = Aggregator(LoadData(uploaded_file)).campaign_summary
        /\ SameTableAgain
        /\ dataframe.rows = LoadData(uploaded_file)

\* the row of the aggregate table that an economics row was computed from
SummaryRowOf(r) ==
    campaign_summary[CHOOSE k \in 1..Len(campaign_summary) : campaign_summary[k].cnum = r.cnum]

\* C20: a campaign without payers has an undefined ltv in the aggregate
\* table, not 0, and the economics computed from it keep it apart from an
\* ltv of 0: the ltv of its economics row is not the number 0, and the row
\* is not the one an ltv of 0 would give
C20_UndefinedLtvDistinctFromZero ==
    /\ \A k \in 1..Len(campaign_summary) :
           campaign_summary[k].Payers = 0 =>
               IsNaN(campaign_summary[k].LTV) /\ campaign_summary[k].LTV # Num(0)
    /\ \A r \in EconRows :
           r.payers = 0 =>
               /\ r.ltv # Num(0)
               /\ r # EconomicsRow([SummaryRowOf(r) EXCEPT !.LTV = Num(0)], r.budget)

----------------------------------------------------------------------------
(* Properties of the row loop and the roll-up *)

\* the budget the session holds for the campaign of summary row i
BudgetOfRow(i) == BudgetGet(pba_budget_data, campaign_summary[i].cnum)

\* the sum of a column of the aggregate table over the budgeted campaigns
BudgetedSum(col) ==
    SumSeq([i \in 1..Len(campaign_summary) |->
               IF BudgetOfRow(i) > 0 THEN campaign_summary[i][col] ELSE 0])

\* C5: a campaign whose budget is <= 0 (or absent) has no economics row and
\* adds nothing to total_budget, total_revenue or total_payers; a campaign
\* whose budget is > 0 has exactly one row.
C5_UnbudgetedExcluded ==
    econ.computed =>
        /\ \A i \in 1..Len(campaign_summary) :
               Cardinality({j \in 1..Len(econ.rows) :
                               econ.rows[j].cnum = campaign_summary[i].cnum})
                   = IF BudgetOfRow(i) > 0 THEN 1 ELSE 0
        /\ \A j \in 1..Len(econ.rows) :
               \E i \in 1..Len(campaign_summary) :
                   /\ campaign_summary[i].cnum = econ.rows[j].cnum
                   /\ econ.rows[j].budget = BudgetOfRow(i)
                   /\ econ.rows[j].budget > 0
        /\ econ.total_budget =
               SumSeq([i \in 1..Len(campaign_summary) |->
                          IF BudgetOfRow(i) > 0 THEN BudgetOfRow(i) ELSE 0])
        /\ econ.total_revenue = BudgetedSum("Revenue")
        /\ econ.total_payers = BudgetedSum("Payers")

\* two campaigns, one budgeted; the other has payers and revenue and no row
C5_Witness ==
    /\ econ.computed
    /\ Len(campaign_summary) = 2 /\ Len(econ.rows) = 1
    /\ \E i \in 1..2 :
           /\ BudgetOfRow(i) = 0
           /\ campaign_summary[i].Payers > 0 /\ campaign_summary[i].Revenue > 0
           /\ econ.total_revenue < SumSeq(Column(campaign_summary, "Revenue"))

\* C7: the roll-up is computed from the totals of the included rows:
\* blended_cac = total_budget / total_payers, blended_ltv = total_revenue /
\* total_payers, blended_ratio = blended_ltv / blended_cac, portfolio_roi =
\* (total_revenue - total_budget) / total_budget * 100; with total_payers = 0
\* blended_cac is +infinity and blended_ltv and blended_ratio are undefined,
\* not a division error; blended_ratio is defined exactly when blended_cac
\* is finite and nonzero and blended_ltv > 0, as the ratio of a row is.
C7_PortfolioRollUp ==
    econ.computed =>
        LET tb == econ.total_budget
            tr == econ.total_revenue
            tp == econ.total_payers
        IN  /\ tb = SumSeq(Column(econ.rows, "budget"))
            /\ tr = SumSeq(Column(econ.rows, "revenue"))
            /\ tp = SumSeq(Column(econ.rows, "payers"))
            /\ tp > 0 =>
                   /\ econ.blended_cac = Fin(tb, tp)
                   /\ econ.blended_ltv = Fin(tr, tp)
                   /\ econ.blended_ratio = Quot(econ.blended_ltv, econ.blended_cac)
            /\ tp = 0 =>
                   /\ econ.blended_cac = Inf
                   /\ econ.blended_ltv = NaN
                   /\ econ.blended_ratio = NaN
            /\ econ.portfolio_roi = Fin((tr - tb) * 100, tb)
            /\ DivError \notin {econ.blended_cac, econ.blended_ltv,
                                econ.blended_ratio, econ.portfolio_roi}
            /\ ~IsNaN(econ.blended_ratio) =
                   (/\ IsFin(econ.blended_cac) /\ ~IsZero(econ.blended_cac)
                    /\ Gt(econ.blended_ltv, Num(0)))

\* two included rows of different cac, blended over two payers
C7_Witness ==
    /\ econ.computed
    /\ Len(econ.rows) = 2
    /\ econ.total_payers = 2
    /\ econ.rows[1].cac # econ.rows[2].cac
    /\ econ.blended_cac \notin {econ.rows[1].cac, econ.rows[2].cac}
    /\ IsFin(econ.blended_ratio)

\* C8: profitable_count is the number of included rows with payers > 0,
\* ltv > 0 and cac <= ltv; a row with payers = 0 is never counted, and the
\* count lies between 0 and the number of included rows.
C8_ProfitableCount ==
    econ.computed =>
        LET counted == {j \in 1..Len(econ.rows) :
                           /\ econ.rows[j].payers > 0
                           /\ econ.rows[j].ltv.k = "fin" /\ econ.rows[j].ltv.n > 0
                           /\ econ.rows[j].cac.k = "fin"
                           /\ econ.rows[j].cac.n * econ.rows[j].ltv.d
                                  <= econ.rows[j].ltv.n * econ.rows[j].cac.d}
        IN  /\ econ.profitable_cnt = Cardinality(counted)
            /\ \A j \in counted : econ.rows[j].payers # 0 /\ econ.rows[j].cac # Inf
            /\ 0 <= econ.profitable_cnt /\ econ.profitable_cnt <= Len(econ.rows)

\* a row without payers beside a row whose cac equals its ltv: one is counted
C8_Witness ==
    /\ econ.computed
    /\ Len(econ.rows) = 2
    /\ econ.profitable_cnt = 1
    /\ \E j \in 1..2 : econ.rows[j].payers = 0
    /\ \E j \in 1..2 : econ.rows[j].payers > 0 /\ econ.rows[j].cac = econ.rows[j].ltv

\* the included rows whose status is one of the three profitable ones
ProfitableByStatus ==
    {j \in 1..Len(econ.rows) : econ.rows[j].status \in {"Excellent", "Good", "Break-even"}}

\* C26: on the campaign_insights page the economics section is computed
\* exactly when the budget map has a value > 0; whenever it is computed, at
\* least one row is included, total_budget is > 0 and portfolio_roi is the
\* quotient and not its fallback 0, and profitable_count is the number of
\* included rows whose status is 'Excellent', 'Good' or 'Break-even', a row
\* having cac <= ltv exactly when its ratio is >= 1
C26_ComputedSectionHasRows ==
    /\ screen = "campaign_insights" =>
           (econ.computed <=> \E c \in DOMAIN pba_budget_data : pba_budget_data[c] > 0)
    /\ econ.computed =>
           /\ Len(econ.rows) >= 1
           /\ econ.total_budget > 0
           /\ econ.portfolio_roi =
                  Mul(PyDiv(Sub(Num(econ.total_revenue), Num(econ.total_budget)),
                            Num(econ.total_budget)), Num(100))
           /\ econ.profitable_cnt = Cardinality(ProfitableByStatus)
           /\ \A j \in 1..Len(econ.rows) :
                  Le(econ.rows[j].cac, econ.rows[j].ltv)
                      <=> Ge(econ.rows[j].ltv_cac, Num(1))

\* of two campaigns with budgets submitted, one has the budget 0: the
\* section is computed from the other alone, which is at break-even
C26_Witness ==
    /\ econ.computed
    /\ DOMAIN pba_budget_data = {1, 2}
    /\ \E c \in {1, 2} : pba_budget_data[c] = 0
    /\ Len(econ.rows) = 1 /\ econ.rows[1].status = "Break-even"
    /\ econ.profitable_cnt = 1

----------------------------------------------------------------------------
(* Properties of the conversion rates and the posterior parameters *)

InPercentRange(x) == IsFin(x) /\ Le(Num(0), x) /\ Le(x, Num(100))

\* C9: every per-campaign conversion rate (purchases over distinct users,
\* times 100) is in [0,100], and is 0 when the campaign has no users, on the
\* home summary table, the comparison, the single-campaign metrics and the
\* conversion-by-campaign chart.  Stated for campaigns whose purchases do
\* not exceed their users, the precondition the aggregates are given under.
C9_ConversionRateInRange ==
    /\ (view.kind = "home" /\ view.shown) =>
           \A i \in 1..Len(view.table) :
               LET r == view.table[i]
               IN  r.Purchases <= r.Users =>
                       /\ InPercentRange(r.conversion_rate)
                       /\ r.Users = 0 => r.conversion_rate = Num(0)
    /\ (view.kind = "compare_campaigns" /\ view.shown) =>
           /\ view.purchases_A <= view.users_A =>
                  /\ InPercentRange(view.conversion_A)
                  /\ view.users_A = 0 => view.conversion_A = Num(0)
           /\ view.purchases_B <= view.users_B =>
                  /\ InPercentRange(view.conversion_B)
                  /\ view.users_B = 0 => view.conversion_B = Num(0)
    /\ (view.kind = "single_campaign" /\ view.shown) =>
           /\ view.purchases <= view.total_users =>
                  /\ InPercentRange(view.conversion_rate)
                  /\ view.total_users = 0 => view.conversion_rate = Num(0)
           /\ \A i \in 1..Len(view.all_campaigns) :
                  LET r == view.all_campaigns[i]
                  IN  r.num_purchases <= r.num_exposed =>
                          InPercentRange(r.conversion_rate)

\* C10: the posterior of each compared campaign is alpha = purchases + 1,
\* beta = users - purchases + 1; with purchases <= users both are >= 1, and
\* a campaign without users then has Beta(1,1) and the comparison raises
\* nothing.
C10_PosteriorParameters ==
    (view.kind = "compare_campaigns" /\ view.shown) =>
        /\ view.alpha_A = view.purchases_A + 1
        /\ view.beta_A = view.users_A - view.purchases_A + 1
        /\ view.alpha_B = view.purchases_B + 1
        /\ view.beta_B = view.users_B - view.purchases_B + 1
        /\ view.purchases_A <= view.users_A =>
               /\ view.alpha_A >= 1 /\ view.beta_A >= 1
               /\ view.users_A = 0 => view.alpha_A = 1 /\ view.beta_A = 1
        /\ view.purchases_B <= view.users_B =>
               /\ view.alpha_B >= 1 /\ view.beta_B >= 1
               /\ view.users_B = 0 => view.alpha_B = 1 /\ view.beta_B = 1
        /\ (view.purchases_A <= view.users_A /\ view.purchases_B <= view.users_B) =>
               view.error = "none"

\* a campaign without users compared with one whose every user purchased
C10_Witness ==
    /\ view.kind = "compare_campaigns" /\ view.shown
    /\ view.users_A = 0 /\ view.purchases_A = 0
    /\ view.alpha_A = 1 /\ view.beta_A = 1
    /\ view.users_B > 0 /\ view.purchases_B = view.users_B /\ view.beta_B = 1
    /\ view.error = "none"

----------------------------------------------------------------------------
(* Properties of the session *)

\* every campaign's budget reads as 0
BudgetsReadZero == \A c \in CampaignNumbers : BudgetGet(pba_budget_data, c) = 0

\* a step that changes the budget map is a submit of the budget form: it
\* starts and ends on the campaign_insights page, the new map has one value
\* per campaign of the table, none negative, and the economics shown are
\* those of the new map
BudgetsChangeBySubmit ==
    pba_budget_data' # pba_budget_data =>
        /\ screen = "campaign_insights" /\ screen' = "campaign_insights"
        /\ page' = page
        /\ DOMAIN pba_budget_data' = BudgetKeys(campaign_summary)
        /\ \A c \in DOMAIN pba_budget_data' : pba_budget_data'[c] >= 0
        /\ econ' = Economics(campaign_summary', pba_budget_data')

\* a step that changes the page or the selection of a page, or that is taken
\* on another screen than the campaign_insights page, keeps the map
BudgetsKeptElsewhere ==
    (page' # page \/ screen # "campaign_insights" \/ view' # view) =>
        pba_budget_data' = pba_budget_data

\* C22: the budget map starts empty, so that every campaign's budget reads
\* as 0; only a submit of the budget form changes it, and replaces it with
\* the submitted values; navigation, a re-run of an analysis and a visit of
\* another page leave every campaign's last submitted budget in place
C22_BudgetsChangedOnlyBySubmit ==
    /\ pba_budget_data = <<>> /\ BudgetsReadZero
    /\ [][BudgetsChangeBySubmit /\ BudgetsKeptElsewhere]_vars

\* submitted budgets are in place on another page
C22_Witness ==
    /\ screen \in Pages \ {"campaign_insights"}
    /\ \E c \in DOMAIN pba_budget_data : pba_budget_data[c] > 0

\* C23: when the uploaded sheet lacks a required column, the run ends in the
\* warning of the missing column and stops before any page computes; the
\* lack never shows as another failure of the data preparation
C23_MissingColumnWarned ==
    (authenticated /\ uploaded_file.present /\ uploaded_file.missing # {}) =>
        /\ screen = "missing_column"
        /\ view = NoView /\ campaign_summary = <<>> /\ econ = NoEcon

\* something of the dataset has been loaded or computed by the last run
Computed ==
    \/ dataframe.loaded \/ screen \in Pages
    \/ view # NoView \/ campaign_summary # <<>> \/ econ # NoEcon

\* the two gates: nothing is loaded or computed, and no file is asked for or
\* stored, before the login; nothing is loaded or computed before the upload
Gated ==
    /\ Computed => authenticated /\ uploaded_file.present
    /\ (screen = "upload" \/ uploaded_file.present) => authenticated
    /\ authenticated => username \in DOMAIN USER_CREDENTIALS /\ ~login_attempt_failed
    /\ ~authenticated => username = "" /\ screen = "login"

\* a step into the authenticated session sets the name of a user of the
\* credential table and clears the failure flag; the login and the stored
\* file are never reset; a step that raises the failure flag leaves the
\* session unauthenticated and without a name
LoginSteps ==
    /\ (~authenticated /\ authenticated') =>
           username' \in DOMAIN USER_CREDENTIALS /\ ~login_attempt_failed'
    /\ authenticated => authenticated' /\ username' = username
    /\ uploaded_file.present => uploaded_file' = uploaded_file
    /\ (~login_attempt_failed /\ login_attempt_failed') =>
           ~authenticated' /\ username' = ""

============================================================================
